---- MODULE Spec2Model ----
(***************************************************************************)
(* Curl-turbulence instanced particle demo (src/src/main.js).              *)
(*                                                                         *)
(* JavaScript numbers are modelled as fixed-point decimals: the integer n  *)
(* stands for the real n / One.  Products and quotients are rounded to the *)
(* nearest representable value, as floating point rounds them.             *)
(***************************************************************************)
EXTENDS Integers, Sequences, FiniteSets

(* ------------------------------------------------------------------ *)
(* Numbers                                                             *)
(* ------------------------------------------------------------------ *)

\* fixed-point resolution: Digits decimal places, One stands for 1.0
Digits == 6

One == 10 ^ Digits

Abs(a) == IF a < 0 THEN 0 - a ELSE a

Sgn(a) == IF a < 0 THEN 0 - 1 ELSE 1

Max2(a, b) == IF a >= b THEN a ELSE b

\* const v = e; ... v ... : e is evaluated once and its value is what the
\* rest of the computation reads
Bind(e, F(_)) == CHOOSE r \in {F(v) : v \in {e}} : TRUE

Bind2(d, e, F(_, _)) == CHOOSE r \in {F(u, v) : u \in {d}, v \in {e}} : TRUE

Bind3(c, d, e, F(_, _, _)) ==
  CHOOSE r \in {F(t, u, v) : t \in {c}, u \in {d}, v \in {e}} : TRUE

\* One = Kilo * Kilo: operands are split in two digits of base Kilo
Kilo == 10 ^ 3

\* the floating-point product a * b: |a| * |b| / One rounded to nearest,
\* by long multiplication in base Kilo
Mul(a, b) ==
  Bind2(a, b, LAMBDA x, y :
    LET xh == Abs(x) \div Kilo
        xl == Abs(x) % Kilo
        yh == Abs(y) \div Kilo
        yl == Abs(y) % Kilo
    IN  Bind(xh * yl + xl * yh, LAMBDA m :
          LET f == (m % Kilo) * Kilo + xl * yl
              q == xh * yh + m \div Kilo + (2 * f + One) \div (2 * One)
          IN  Sgn(x) * Sgn(y) * q))

\* <<(10 * r) \div c, (10 * r) % c>> for 0 <= r < c < 2^31 / 5, as 5 * (2 * r)
\* so that no intermediate exceeds 32 bits
TimesTen(r, c) ==
  Bind2((2 * r) \div c, 5 * ((2 * r) % c), LAMBDA q, u :
    <<5 * q + u \div c, u % c>>)

\* r / c for 0 <= r < c, to n decimal places, rounded to nearest (ties up),
\* in units of the last place: long division, one decimal digit at a time
RECURSIVE Fraction(_, _, _)
Fraction(r, c, n) ==
  IF n = 0 THEN (IF 2 * r >= c THEN 1 ELSE 0)
  ELSE Bind(TimesTen(r, c), LAMBDA s :
         s[1] * 10 ^ (n - 1) + Fraction(s[2], c, n - 1))

\* the floating-point quotient a / b, b > 0 (ties away from zero)
Div(a, b) ==
  Bind2(a, b, LAMBDA x, y :
    Sgn(x) * ((Abs(x) \div y) * One + Fraction(Abs(x) % y, y, Digits)))

\* wide numbers <<hi, lo>> = hi * Wide + lo, for sums of squares
Half == 2 ^ 14

Wide == Half * Half

\* a * a as a wide number, |a| < 2^29
WSquare(a) ==
  LET ah == Abs(a) \div Half
      al == Abs(a) % Half
      m  == 2 * ah * al
      lo == (m % Half) * Half + al * al
  IN  <<ah * ah + m \div Half + lo \div Wide, lo % Wide>>

WAdd(u, v) ==
  Bind2(u, v, LAMBDA a, b :
    LET lo == a[2] + b[2]
    IN  <<a[1] + b[1] + lo \div Wide, lo % Wide>>)

WLeq(u, v) ==
  Bind2(u, v, LAMBDA a, b : a[1] < b[1] \/ (a[1] = b[1] /\ a[2] <= b[2]))

\* x is a lower bound of the square root of w
Fits(w, x, hi) == x <= hi /\ WLeq(WSquare(x), w)

\* the largest d in 0..7 such that lo + d * step fits
Octant(w, lo, step, hi) ==
  IF Fits(w, lo + 4 * step, hi)
  THEN IF Fits(w, lo + 6 * step, hi)
       THEN (IF Fits(w, lo + 7 * step, hi) THEN 7 ELSE 6)
       ELSE (IF Fits(w, lo + 5 * step, hi) THEN 5 ELSE 4)
  ELSE IF Fits(w, lo + 2 * step, hi)
       THEN (IF Fits(w, lo + 3 * step, hi) THEN 3 ELSE 2)
       ELSE (IF Fits(w, lo + step, hi) THEN 1 ELSE 0)

\* the largest r with r * r <= w, given lo * lo <= w < (lo + 8 * step)^2,
\* r <= hi and step a power of 8 or 0: one octal digit at a time
RECURSIVE WSqrt(_, _, _, _)
WSqrt(w, lo, step, hi) ==
  Bind2(lo, step, LAMBDA l, s :
    IF s = 0 THEN l
    ELSE WSqrt(w, l + Octant(w, l, s, hi) * s, s \div 8, hi))

\* the largest power of 8 that is at most m, 0 < m < 8^10
StepFor(m) == 8 ^ (CHOOSE k \in 0..9 : 8 ^ k <= m /\ m < 8 ^ (k + 1))

(* ------------------------------------------------------------------ *)
(* THREE.Vector3                                                       *)
(* ------------------------------------------------------------------ *)

Vec(x, y, z) == [x |-> x, y |-> y, z |-> z]

Zero3 == Vec(0, 0, 0)

\* Vector3.length(): Math.sqrt(x*x + y*y + z*z)
Length(p) ==
  Bind(p, LAMBDA v :
    Bind2(Max2(Abs(v.x), Max2(Abs(v.y), Abs(v.z))),
          WAdd(WSquare(v.x), WAdd(WSquare(v.y), WSquare(v.z))),
          LAMBDA m, w : IF m = 0 THEN 0 ELSE WSqrt(w, m, StepFor(m), 2 * m)))

\* Vector3.multiplyScalar(s)
MultiplyScalar(p, s) ==
  Bind2(p, s, LAMBDA v, k : Vec(Mul(v.x, k), Mul(v.y, k), Mul(v.z, k)))

\* Vector3.divideScalar(s)
DivideScalar(p, s) ==
  Bind2(p, s, LAMBDA v, k : Vec(Div(v.x, k), Div(v.y, k), Div(v.z, k)))

\* Vector3.normalize(): divideScalar(length() || 1)
Normalize(p) ==
  Bind(p, LAMBDA v :
    Bind(Length(v), LAMBDA len : IF len = 0 THEN v ELSE DivideScalar(v, len)))

\* addScaledVector with the scale forgotten: p.add(v)
AddUnscaledVector(p, v, s) ==
  Bind3(p, v, s, LAMBDA a, b, k : Vec(a.x + b.x, a.y + b.y, a.z + b.z))

\* Vector3.addScaledVector(v, s)
AddScaledVector(p, v, s) ==
  Bind3(p, v, s, LAMBDA a, b, k :
    Vec(a.x + Mul(b.x, k), a.y + Mul(b.y, k), a.z + Mul(b.z, k)))

\* Vector3.setLength(l): normalize().multiplyScalar(l)
SetLength(p, l) == MultiplyScalar(Normalize(p), l)

(* ------------------------------------------------------------------ *)
(* Constants of the program                                            *)
(* ------------------------------------------------------------------ *)

\* const RADIUS = 50
RADIUS == 50

R == RADIUS * One

\* const epsilon = 0.0001, as 1 / EpsilonInv
EpsilonInv == 10000

epsilon == One \div EpsilonInv

\* the margin 0.001 of the hard clamp, as 1 / MarginInv
MarginInv == 1000

Margin == One \div MarginInv

\* COLOR_CENTER = 0xffffff, COLOR_EDGE = 0xff0000
COLOR_CENTER == Vec(One, One, One)

COLOR_EDGE == Vec(One, 0, 0)

(* ------------------------------------------------------------------ *)
(* Bounds of the model                                                 *)
(* ------------------------------------------------------------------ *)

\* the range of the "Instances" slider, 1000..20000 in the program, scaled
\* down so that a collection can be enumerated
CountMin == 1

CountMax == 2

\* frames run after the first one
MaxFrames == 1

\* GUI events handled
MaxEvents == 1

(* ------------------------------------------------------------------ *)
(* GUI ranges (lil-gui number controllers)                             *)
(* ------------------------------------------------------------------ *)

SizeMin == One \div 10

SizeMax == 2 * One

WindScaleMin == 5 * (One \div 1000)

WindScaleMax == One \div 10

SpeedMin == One \div 10

SpeedMax == 10 * One

BoundaryMin == One

BoundaryMax == 10 * One

\* the values a user is taken to set on each controller
CountInputs == CountMin..CountMax

SizeInputs == {SizeMax}

WindScaleInputs == {WindScaleMax}

SpeedInputs == {SpeedMax}

BoundaryInputs == {BoundaryMin}

\* const params = { count, size, windScale, speed, boundary }
DefaultParams ==
  [count     |-> CountMin,
   size      |-> One \div 2,
   windScale |-> 4 * (One \div 100),
   speed     |-> 4 * One,
   boundary  |-> 4 * One]

\* values clock.getDelta() returns, in seconds: 0, 0.016 and 2
Deltas == {0, 16 * (One \div 1000), 2 * One}

(* ------------------------------------------------------------------ *)
(* simplex.noise3D                                                     *)
(* ------------------------------------------------------------------ *)

\* The noise generator is seeded once, when it is constructed.  A seed is
\* modelled by the direction g along which the field varies; the field is
\* a continuous triangle wave of g . (u, v, w) with values in [-1, 1].
Seeds == {Vec(1, 1, 1), Vec(1, 0, -1)}

Noise3D(g, u, v, w) ==
  Bind((g.x * u + g.y * v + g.z * w + One) % (4 * One), LAMBDA m :
    IF m <= 2 * One THEN m - One ELSE 3 * One - m)

(* ------------------------------------------------------------------ *)
(* curlNoise                                                           *)
(* ------------------------------------------------------------------ *)

\* const n = (xi, yi, zi) => simplex.noise3D(xi * windScale, ...)
ScaledNoise(g, ws, xi, yi, zi) ==
  Noise3D(g, Mul(xi, ws), Mul(yi, ws), Mul(zi, ws))

\* the three central differences dx, dy, dz
Gradient(g, ws, p) ==
  Vec(Div(ScaledNoise(g, ws, p.x + epsilon, p.y, p.z)
            - ScaledNoise(g, ws, p.x - epsilon, p.y, p.z), 2 * epsilon),
      Div(ScaledNoise(g, ws, p.x, p.y + epsilon, p.z)
            - ScaledNoise(g, ws, p.x, p.y - epsilon, p.z), 2 * epsilon),
      Div(ScaledNoise(g, ws, p.x, p.y, p.z + epsilon)
            - ScaledNoise(g, ws, p.x, p.y, p.z - epsilon), 2 * epsilon))

\* the curl with a sign slipped in its last component
RawCurlSignSlip(d) ==
  Bind(d, LAMBDA e : Vec(e.y - e.z, e.z - e.x, e.x + e.y))

\* new THREE.Vector3(dy - dz, dz - dx, dx - dy)
RawCurl(d) ==
  Bind(d, LAMBDA e : Vec(e.y - e.z, e.z - e.x, e.x - e.y))

CurlNoise(g, ws, p) == Normalize(RawCurl(Gradient(g, ws, p)))

(* ------------------------------------------------------------------ *)
(* animate: one particle                                               *)
(* ------------------------------------------------------------------ *)

\* simplex.noise3D(p * windScale) * 0.5 + 0.5
NoiseAmp(g, ws, p) ==
  Mul(ScaledNoise(g, ws, p.x, p.y, p.z), One \div 2) + One \div 2

\* curlNoise(p).multiplyScalar(params.speed * noiseAmp)
Velocity(g, prm, p) ==
  MultiplyScalar(CurlNoise(g, prm.windScale, p),
                 Mul(prm.speed, NoiseAmp(g, prm.windScale, p)))

\* p.addScaledVector(p.clone().normalize(), -push * dt)
SoftPush(q, delta, boundary) ==
  Bind(q, LAMBDA v :
    Bind(Mul(Length(v) - R, boundary), LAMBDA push :
      AddScaledVector(v, Normalize(v), Mul(0 - push, delta))))

\* the clamp with the margin added instead of subtracted
HardClampOutside(s) ==
  Bind(s, LAMBDA v : IF Length(v) > R THEN SetLength(v, R + Margin) ELSE v)

\* the clamp left out
NoHardClamp(s) == s

\* if (p.length() > RADIUS) p.setLength(RADIUS - 0.001)
HardClamp(s) ==
  Bind(s, LAMBDA v : IF Length(v) > R THEN SetLength(v, R - Margin) ELSE v)

\* boundary force: push back inside if outside radius
Contain(q, delta, boundary) ==
  Bind(q, LAMBDA v :
    IF Length(v) > R THEN HardClamp(SoftPush(v, delta, boundary)) ELSE v)

\* the parameters the loop reads from params, each time it uses one
FieldParametersAtStartup(prm) ==
  [windScale |-> DefaultParams.windScale,
   speed     |-> DefaultParams.speed,
   boundary  |-> DefaultParams.boundary]

FieldParameters(prm) ==
  [windScale |-> prm.windScale, speed |-> prm.speed, boundary |-> prm.boundary]

\* the body of the particle loop, up to the new value of p
Step(g, prm, p, delta) ==
  Bind2(prm, p, LAMBDA f, v :
    Contain(AddScaledVector(v, Velocity(g, f, v), delta), delta, f.boundary))

(* ------------------------------------------------------------------ *)
(* Math.random                                                         *)
(* ------------------------------------------------------------------ *)

\* A run of initParticles is a function of the numbers Math.random() hands
\* out, each in [0, 1).  RandomStreams are the streams considered, as
\* millionths; a stream is read cyclically.
RandomStreams ==
  { << 200000, 900000, 500000,   500000, 500000, 500000,
       980000, 980000, 20000,
       600000, 300000, 550000,   0, 999999, 250000,
       500000, 500000, 500000,   100000, 700000, 999999,
       0, 500000, 500000,        300000, 300000, 300000 >>,
    << 800000, 100000, 500000,   999999, 0, 500000,
       0, 0, 0,
       0, 500000, 500000,        250000, 750000, 500000,
       10000, 990000, 10000,
       550000, 450000, 500000,   500000, 500000, 0,
       200000, 900000, 500000,   600000, 600000, 600000 >> }

\* the k-th number of stream rnd, k = 0, 1, ...
Random(rnd, k) == rnd[(k % Len(rnd)) + 1]

(* ------------------------------------------------------------------ *)
(* initParticles                                                       *)
(* ------------------------------------------------------------------ *)

\* (Math.random() * 2 - 1) * RADIUS
Coordinate(r) == Mul(Mul(r, 2 * One) - One, R)

\* do { p = new THREE.Vector3(...) } while (p.length() > RADIUS):
\* the accepted point and the index of the next unread number
RECURSIVE SamplePoint(_, _)
SamplePoint(rnd, k) ==
  Bind2(k, Vec(Coordinate(Random(rnd, k)),
               Coordinate(Random(rnd, k + 1)),
               Coordinate(Random(rnd, k + 2))),
        LAMBDA j, p : IF Length(p) > R THEN SamplePoint(rnd, j + 3)
                      ELSE [p |-> p, k |-> j + 3])

\* Color.lerp(color, alpha), per channel
Lerp(a, b, alpha) == Bind(a, LAMBDA c : c + Mul(b - c, alpha))

\* Color.clampScalar(0, 1), per channel
Clamp01(c) ==
  Bind(c, LAMBDA v : IF v < 0 THEN 0 ELSE IF v > One THEN One ELSE v)

\* (Math.random() - 0.5) * 0.1
Jitter(r) == Mul(r - One \div 2, One \div 10)

\* colour = white -> red based on radius + small jitter
ParticleColor(p, rnd, k) ==
  Bind2(Div(Length(p), R), k, LAMBDA t, j :
    Vec(Clamp01(Lerp(COLOR_CENTER.x, COLOR_EDGE.x, t) + Jitter(Random(rnd, j))),
        Clamp01(Lerp(COLOR_CENTER.y, COLOR_EDGE.y, t) + Jitter(Random(rnd, j + 1))),
        Clamp01(Lerp(COLOR_CENTER.z, COLOR_EDGE.z, t) + Jitter(Random(rnd, j + 2)))))

\* for (let i = 0; i < params.count; i++) { ... }: the position and the
\* colour of each particle, in order
RECURSIVE Particles(_, _, _)
Particles(rnd, k, n) ==
  Bind(n, LAMBDA m :
    IF m <= 0 THEN <<>>
    ELSE Bind(SamplePoint(rnd, k), LAMBDA s :
           <<[p |-> s.p, color |-> ParticleColor(s.p, rnd, s.k)]>>
             \o Particles(rnd, s.k + 3, m - 1)))

(* ------------------------------------------------------------------ *)
(* State                                                               *)
(* ------------------------------------------------------------------ *)

VARIABLES
  pc,             \* where the module script is: "main129", "main169", "idle"
  params,         \* the params object
  changed,        \* the controllers with a change not yet finished
  simplex,        \* the seed of the noise instance
  positions,      \* let positions = []
  instancedMesh,  \* let instancedMesh
  scene,          \* the ids of the meshes that are children of the scene
  dummy,          \* let dummy = new THREE.Object3D()
  clock,          \* const clock = new THREE.Clock()
  dt,             \* const dt of the most recent frame
  pending,        \* animate callbacks requested and not yet run
  frames,         \* calls of animate so far
  events          \* GUI events so far

vars == <<pc, params, changed, simplex, positions, instancedMesh, scene,
          dummy, clock, dt, pending, frames, events>>

\* let instancedMesh; (not yet assigned)
Undefined == [def |-> FALSE, id |-> 0 - 1]

\* Every object created gets an identity no live object has; the scene
\* and the variable instancedMesh hold at most one mesh each, so two
\* identities are enough.
FreshId(mesh) == IF mesh.def THEN 1 - mesh.id ELSE 0

Last(seq) == seq[Len(seq)]

Init ==
  /\ pc = "main129"
  /\ params = DefaultParams
  /\ changed = {}
  /\ simplex \in Seeds
  /\ positions = <<>>
  /\ instancedMesh = Undefined
  /\ scene = {}
  /\ dummy = [position |-> Zero3, scale |-> One]
  /\ clock = [running |-> FALSE]
  /\ dt = 0
  /\ pending = 0
  /\ frames = 0
  /\ events = 0

(* ------------------------------------------------------------------ *)
(* initParticles                                                       *)
(* ------------------------------------------------------------------ *)

\* the reset without positions = []
ResetPositionsAppend(old, ps) == old \o [i \in 1..Len(ps) |-> ps[i].p]

\* positions = []; ... positions.push(p)
ResetPositions(old, ps) == [i \in 1..Len(ps) |-> ps[i].p]

\* new THREE.InstancedMesh(sphereGeom, material, params.count), then
\* setMatrixAt(i, dummy.matrix) and setColorAt(i, color) for each particle
ResetMesh(old, prm, ps) ==
  [def            |-> TRUE,
   id             |-> FreshId(old),
   count          |-> prm.count,
   radius         |-> Mul(prm.size, One \div 2),
   instanceMatrix |-> [i \in 1..prm.count |->
                         [position |-> ps[i].p, scale |-> prm.size]],
   instanceColor  |-> [i \in 1..prm.count |-> ps[i].color]]

\* scene.remove(instancedMesh) of the old mesh, scene.add(instancedMesh) of
\* the new one.  With no particle no colour attribute is ever allocated:
\* instancedMesh.instanceColor is null, line 125 throws and line 126 is
\* not reached.
ResetScene(scn, old, new) ==
  LET removed == IF old.def THEN scn \ {old.id} ELSE scn
  IN  IF new.count = 0 THEN removed ELSE removed \cup {new.id}

\* dummy.position.copy(p); dummy.scale.setScalar(params.size)
ResetDummy(d, prm, ps) ==
  IF Len(ps) = 0 THEN d
  ELSE [position |-> Last(ps).p, scale |-> prm.size]

InitParticles(rnd) ==
  \E ps \in {Particles(rnd, 0, params.count)} :
    /\ positions' = ResetPositions(positions, ps)
    /\ instancedMesh' = ResetMesh(instancedMesh, params, ps)
    /\ scene' = ResetScene(scene, instancedMesh, instancedMesh')
    /\ dummy' = ResetDummy(dummy, params, ps)

(* ------------------------------------------------------------------ *)
(* animate                                                             *)
(* ------------------------------------------------------------------ *)

\* clock.getDelta(): the first call starts the clock and returns 0
GetDelta(clk) == IF clk.running THEN Deltas ELSE {0}

\* the loop body run twice on every particle
AnimateParticlesTwice(g, prm, ps, delta) ==
  [i \in 1..Len(ps) |->
     Step(g, FieldParameters(prm),
          Step(g, FieldParameters(prm), ps[i], delta), delta)]

\* for (let i = 0; i < positions.length; i++) { ... }: the positions
AnimateParticles(g, prm, ps, delta) ==
  [i \in 1..Len(ps) |-> Step(g, FieldParameters(prm), ps[i], delta)]

\* the loop stopping one particle short
SetMatricesButLast(mesh, ps, scale) ==
  [mesh EXCEPT !.instanceMatrix =
     [i \in 1..Len(@) |->
        IF i < Len(ps) THEN [position |-> ps[i], scale |-> scale] ELSE @[i]]]

\* instancedMesh.setMatrixAt(i, dummy.matrix) for every particle; a write
\* past the end of the attribute's array is dropped
SetMatrices(mesh, ps, scale) ==
  [mesh EXCEPT !.instanceMatrix =
     [i \in 1..Len(@) |->
        IF i <= Len(ps) THEN [position |-> ps[i], scale |-> scale] ELSE @[i]]]

\* animate without its first line
NoRequestAnimationFrame(n) == n

\* requestAnimationFrame(animate)
RequestAnimationFrame(n) == n + 1

Animate(delta) ==
  /\ instancedMesh.def
  /\ frames' = frames + 1
  /\ clock' = [running |-> TRUE]
  /\ dt' = delta
  /\ positions' = AnimateParticles(simplex, params, positions, delta)
  /\ instancedMesh' = SetMatrices(instancedMesh, positions', dummy.scale)
  /\ dummy' = IF Len(positions') = 0 THEN dummy
              ELSE [dummy EXCEPT !.position = Last(positions')]
  /\ UNCHANGED <<params, changed, simplex, scene, events>>

(* ------------------------------------------------------------------ *)
(* The module script                                                   *)
(* ------------------------------------------------------------------ *)

\* line 129: initParticles();
MainInitParticles ==
  /\ pc = "main129"
  /\ \E rnd \in RandomStreams : InitParticles(rnd)
  /\ pc' = "main169"
  /\ UNCHANGED <<params, changed, simplex, clock, dt, pending, frames, events>>

\* line 169: animate();
MainAnimate ==
  /\ pc = "main169"
  /\ pending' = RequestAnimationFrame(pending)
  /\ \E delta \in GetDelta(clock) : Animate(delta)
  /\ pc' = "idle"

(* ------------------------------------------------------------------ *)
(* Callbacks run by the event loop, each to completion                 *)
(* ------------------------------------------------------------------ *)

\* the browser runs a requested animate callback
AnimateFrame ==
  /\ pc = "idle"
  /\ pending > 0
  /\ frames <= MaxFrames
  /\ pending' = RequestAnimationFrame(pending - 1)
  /\ \E delta \in GetDelta(clock) : Animate(delta)
  /\ UNCHANGED pc

\* a controller's setValue: the value is written to params at once
SetValue(name, v) ==
  /\ pc = "idle"
  /\ events < MaxEvents
  /\ params[name] # v
  /\ params' = [params EXCEPT ![name] = v]
  /\ events' = events + 1
  /\ UNCHANGED <<pc, simplex, positions, instancedMesh, scene, dummy, clock,
                 dt, pending, frames>>

GuiCount ==
  /\ \E v \in CountInputs : SetValue("count", v)
  /\ changed' = changed \cup {"count"}

GuiSize ==
  /\ \E v \in SizeInputs : SetValue("size", v)
  /\ changed' = changed \cup {"size"}

GuiWindScale ==
  /\ \E v \in WindScaleInputs : SetValue("windScale", v)
  /\ UNCHANGED changed

GuiSpeed ==
  /\ \E v \in SpeedInputs : SetValue("speed", v)
  /\ UNCHANGED changed

GuiBoundary ==
  /\ \E v \in BoundaryInputs : SetValue("boundary", v)
  /\ UNCHANGED changed

\* onFinishChange(params.reset) of "count" and "size": called when a
\* change of the controller ends
GuiFinishChange ==
  /\ pc = "idle"
  /\ \E name \in changed : changed' = changed \ {name}
  /\ \E rnd \in RandomStreams : InitParticles(rnd)
  /\ UNCHANGED <<pc, params, simplex, clock, dt, pending, frames, events>>

\* the "Reset Particles" button: params.reset()
GuiReset ==
  /\ pc = "idle"
  /\ events < MaxEvents
  /\ \E rnd \in RandomStreams : InitParticles(rnd)
  /\ events' = events + 1
  /\ UNCHANGED <<pc, params, changed, simplex, clock, dt, pending, frames>>

Next ==
  \/ MainInitParticles
  \/ MainAnimate
  \/ AnimateFrame
  \/ GuiCount
  \/ GuiSize
  \/ GuiWindScale
  \/ GuiSpeed
  \/ GuiBoundary
  \/ GuiFinishChange
  \/ GuiReset

Spec == Init /\ [][Next]_vars

\* the scripts run and requested frames are delivered
LiveSpec ==
  /\ Spec
  /\ WF_vars(MainInitParticles)
  /\ WF_vars(MainAnimate)
  /\ WF_vars(AnimateFrame)

(* ------------------------------------------------------------------ *)
(* params.count set from outside the GUI                               *)
(* ------------------------------------------------------------------ *)

\* params.count = v, with v outside the range of the slider
ProgramSetCount ==
  /\ pc = "idle"
  /\ \E v \in {0, CountMax + 1} :
       /\ params.count # v
       /\ params' = [params EXCEPT !.count = v]
  /\ UNCHANGED <<pc, changed, simplex, positions, instancedMesh, scene, dummy,
                 clock, dt, pending, frames, events>>

NextProgram == Next \/ ProgramSetCount

SpecProgram == Init /\ [][NextProgram]_vars

(* ------------------------------------------------------------------ *)
(* The boundary force alone, on a particle at distance 2 * RADIUS      *)
(* ------------------------------------------------------------------ *)

FarPoints ==
  { Vec(100 * One, 0, 0), Vec(0, 0 - 100 * One, 0), Vec(0, 0, 100 * One),
    Vec(60 * One, 0 - 80 * One, 0), Vec(0 - 60 * One, 0, 80 * One),
    Vec(36 * One, 48 * One, 0 - 80 * One) }

\* dt > 0: a millionth of a second, 0.016 s, 0.5 s, 1 s
PositiveDeltas == {1, 16 * (One \div 1000), One \div 2, One}

BoundaryValues == {BoundaryMin, DefaultParams.boundary, BoundaryMax}

InitContain ==
  /\ pc = "contain"
  /\ \E b \in BoundaryValues : params = [DefaultParams EXCEPT !.boundary = b]
  /\ changed = {}
  /\ simplex \in {Vec(1, 0, 0 - 1)}
  /\ \E p \in FarPoints :
       /\ positions = <<p>>
       /\ instancedMesh =
            [def |-> TRUE, id |-> 0, count |-> 1,
             radius |-> Mul(DefaultParams.size, One \div 2),
             instanceMatrix |-> <<[position |-> p, scale |-> DefaultParams.size]>>,
             instanceColor |-> <<COLOR_EDGE>>]
       /\ dummy = [position |-> p, scale |-> DefaultParams.size]
  /\ scene = {0}
  /\ clock = [running |-> TRUE]
  /\ dt \in PositiveDeltas
  /\ pending = 1
  /\ frames = 1
  /\ events = 0

\* lines 153-158 of the loop body, on every particle
ContainStep ==
  /\ pc = "contain"
  /\ positions' = [i \in 1..Len(positions) |->
                     Contain(positions[i], dt, FieldParameters(params).boundary)]
  /\ pc' = "contained"
  /\ UNCHANGED <<params, changed, simplex, instancedMesh, scene, dummy, clock,
                 dt, pending, frames, events>>

SpecContain == InitContain /\ [][ContainStep]_vars

(* ------------------------------------------------------------------ *)
(* Properties                                                          *)
(* ------------------------------------------------------------------ *)

\* a step in which animate ran
FrameStep == frames' = frames + 1

\* a step in which initParticles ran: a new mesh object took the place of
\* the old one
ResetStep == instancedMesh'.id # instancedMesh.id

\* the positions initParticles builds from stream rnd for n particles
FreshPositions(rnd, n) ==
  LET ps == Particles(rnd, 0, n) IN [i \in 1..Len(ps) |-> ps[i].p]

IsFresh(ps) == \E rnd \in RandomStreams : ps = FreshPositions(rnd, Len(ps))

\* the position of a particle after the velocity term of a frame
Advected(p, delta) ==
  AddScaledVector(p, Velocity(simplex, params, p), delta)

Contained == \A i \in DOMAIN positions : Length(positions[i]) <= R

\* A unit vector carries a rounding error of up to half a millionth in each
\* component, so a vector set to length l has a length within
\* sqrt(3) * (l / 2 + 1) millionths of l: less than Margin / 20 for l <= R.
AtClampLength(p) == Abs(Length(p) - (R - Margin)) <= Margin \div 20

\* C1: in every state, so at the end of every frame and of every reset,
\* every position is at most R from the origin; and in a frame in which the
\* soft push-back leaves a particle outside R, the particle ends at length
\* R - 0.001, up to the rounding of the unit vector.
C1_Containment ==
  /\ []Contained
  /\ [][FrameStep =>
         \A i \in DOMAIN positions :
           LET q == Advected(positions[i], dt')
           IN  (Length(q) > R /\ Length(SoftPush(q, dt', params.boundary)) > R)
                 => AtClampLength(positions'[i])]_vars

\* a frame with dt > 0 has just hard-clamped the first particle
C1_Witness ==
  /\ pc = "idle"
  /\ dt > 0
  /\ Len(positions) > 0
  /\ AtClampLength(positions[1])
  /\ ~IsFresh(positions)

\* C2: every reset leaves exactly params.count positions, all of them the
\* points the reset itself sampled (none from the old collection), each at
\* most R from the origin.
C2_ResetReplaces ==
  [][ResetStep =>
       /\ Len(positions') = params'.count
       /\ IsFresh(positions')
       /\ \A i \in DOMAIN positions' : Length(positions'[i]) <= R]_vars

\* a second collection, of CountMax particles, built after frames had run
C2_Witness ==
  /\ instancedMesh.def
  /\ instancedMesh.id = 1
  /\ frames > 1
  /\ Len(positions) = CountMax
  /\ IsFresh(positions)

\* C3: a reset never leaves a collection whose size is outside the range of
\* the slider: an out-of-range params.count is clamped or the reset refused.
C3_CountInRange ==
  instancedMesh.def => Len(positions) \in CountMin..CountMax

\* C4: the end of a change of count or size runs a reset (a new mesh in the
\* scene, the old one out of it, a new collection of params.count
\* positions); a change of windScale, speed or boundary leaves collection,
\* mesh and scene as they are; and a frame computes the positions from the
\* values params holds when it runs.
C4_ConfigurationChanges ==
  /\ [][changed' # changed /\ changed' \subseteq changed =>
          /\ ResetStep
          /\ Len(positions') = params.count
          /\ instancedMesh'.count = params.count
          /\ instancedMesh'.radius = Mul(params.size, One \div 2)
          /\ scene' = {instancedMesh'.id}]_vars
  /\ [][(\/ params'.windScale # params.windScale
         \/ params'.speed # params.speed
         \/ params'.boundary # params.boundary) =>
          UNCHANGED <<positions, instancedMesh, scene>>]_vars
  /\ [][FrameStep =>
          \A i \in DOMAIN positions :
            positions'[i] =
              Step(simplex,
                   [windScale |-> params.windScale, speed |-> params.speed,
                    boundary |-> params.boundary],
                   positions[i], dt')]_vars

\* the positions are those of one frame run on a fresh collection with the
\* speed the GUI has set since, and differ from those the old speed gives
C4_Witness ==
  /\ params.speed = SpeedMax
  /\ dt > 0
  /\ \E rnd \in RandomStreams :
       LET ps == FreshPositions(rnd, Len(positions))
       IN  /\ positions = [i \in 1..Len(ps) |-> Step(simplex, params, ps[i], dt)]
           /\ positions # [i \in 1..Len(ps) |->
                             Step(simplex, DefaultParams, ps[i], dt)]

\* C5: the boundary force alone takes a particle at distance 2R to a
\* distance below 2R, whatever dt > 0 and boundary > 0 are; the particle at
\* (100, 0, 0) with boundary 4.0 and dt 0.016 ends at a distance <= R.
C5_BoundaryInward ==
  pc = "contained" =>
    \A i \in DOMAIN positions :
      /\ Length(positions[i]) < 2 * R
      /\ ( /\ instancedMesh.instanceMatrix[i].position = Vec(100 * One, 0, 0)
           /\ params.boundary = 4 * One
           /\ dt = 16 * (One \div 1000) )
         => Length(positions[i]) <= R

\* the concrete case of the claim has been stepped
C5_Witness ==
  /\ pc = "contained"
  /\ instancedMesh.instanceMatrix[1].position = Vec(100 * One, 0, 0)
  /\ params.boundary = 4 * One
  /\ dt = 16 * (One \div 1000)
  /\ positions[1] = Vec(R - Margin, 0, 0)

\* C6: a frame with dt = 0 leaves every position within R as it was.
C6_ZeroDtNoOp ==
  [][FrameStep /\ dt' = 0 =>
       \A i \in DOMAIN positions :
         Length(positions[i]) <= R => positions'[i] = positions[i]]_vars

\* a later frame with dt = 0, at the highest speed, with a particle on the
\* boundary whose velocity is not zero
C6_Witness ==
  /\ frames > 1
  /\ dt = 0
  /\ params.speed = SpeedMax
  /\ \E i \in DOMAIN positions :
       /\ Length(positions[i]) = R
       /\ Velocity(simplex, params, positions[i]) # Zero3

\* the three differences dx, dy, dz are equal: the raw curl is zero
Degenerate(p) ==
  LET d == Gradient(simplex, params.windScale, p)
  IN  d.x = d.y /\ d.y = d.z

\* C7: a particle whose raw curl vector is zero gets the zero velocity and
\* is not moved by the frame.
C7_DegenerateGradient ==
  [][FrameStep =>
       \A i \in DOMAIN positions :
         Degenerate(positions[i]) =>
           /\ CurlNoise(simplex, params.windScale, positions[i]) = Zero3
           /\ Velocity(simplex, params, positions[i]) = Zero3
           /\ positions'[i] = positions[i]]_vars

\* a frame with dt > 0 has run on a particle with equal non-zero differences
C7_Witness ==
  /\ frames > 1
  /\ dt > 0
  /\ \E i \in DOMAIN positions :
       /\ Degenerate(positions[i])
       /\ Gradient(simplex, params.windScale, positions[i]) # Zero3
       /\ NoiseAmp(simplex, params.windScale, positions[i]) > 0

\* C8: at every point between callbacks the mesh has as many instances as
\* there are positions, and the transform of each instance is the position
\* of the same index: frame and reset each work on one whole collection.
C8_WholeCollection ==
  IF instancedMesh.def
  THEN /\ Len(positions) = instancedMesh.count
       /\ Len(instancedMesh.instanceMatrix) = instancedMesh.count
       /\ Len(instancedMesh.instanceColor) = instancedMesh.count
       /\ \A i \in DOMAIN positions :
            instancedMesh.instanceMatrix[i].position = positions[i]
  ELSE positions = <<>> /\ frames = 0

\* a frame has moved the particles of a collection built by a later reset
C8_Witness ==
  /\ instancedMesh.def
  /\ instancedMesh.id = 1
  /\ Len(positions) = CountMax
  /\ dt > 0
  /\ ~IsFresh(positions)

\* C9: a frame replaces each position by the result of one run of the loop
\* body and changes neither the number of particles, nor the colours, nor
\* any parameter, nor the mesh object or the scene.
C9_FrameEffect ==
  [][FrameStep =>
       /\ Len(positions') = Len(positions)
       /\ \A i \in DOMAIN positions :
            positions'[i] = Step(simplex, params, positions[i], dt')
       /\ params' = params
       /\ instancedMesh'.instanceColor = instancedMesh.instanceColor
       /\ instancedMesh'.count = instancedMesh.count
       /\ instancedMesh'.id = instancedMesh.id
       /\ scene' = scene]_vars

\* the last frame allowed has run with dt > 0 and has moved a particle
C9_Witness ==
  /\ frames = MaxFrames + 1
  /\ dt > 0
  /\ Len(positions) = CountMax
  /\ \E i \in DOMAIN positions :
       instancedMesh.instanceColor[i] # COLOR_EDGE /\ ~IsFresh(positions)

\* C10: the first frame runs after the first reset; from then on exactly
\* one animate callback is pending, resets request none, every frame
\* leaves one requested; and the requested frame is eventually run: frames
\* are counted one by one, and the count reaches the number of frames the
\* model follows.
C10_SingleLoop ==
  /\ [](pc = "main169" => instancedMesh.def /\ frames = 0 /\ pending = 0)
  /\ [](pc = "idle" => pending = 1)
  /\ [](frames > 0 => instancedMesh.def /\ Len(positions) > 0)
  /\ [][ResetStep => pending' = pending]_vars
  /\ [][FrameStep => pending' = 1]_vars
  /\ [][frames' = frames \/ FrameStep]_vars
  /\ <>(frames = MaxFrames + 1)

\* every frame the model follows has run, around a reset
C10_Witness ==
  /\ frames = MaxFrames + 1
  /\ pending = 1
  /\ instancedMesh.id = 1

====
